---- MODULE Spec2Model ----
(***************************************************************************)
(* Model of the multi-model inference server of oci-ai-ds-model-server:    *)
(* the model-artifact lifecycle (model-server.py), the sidecar that loads  *)
(* large models from object storage (sidecar-server.py) and the async      *)
(* inference jobs (model-server.py, mis-resource-manager.py,               *)
(* async_infer_dao.py, scoring-server.py).                                 *)
(*                                                                         *)
(* Server instances (replicas) share one model directory (the artifact     *)
(* store with the registry file); each has its own in-memory model_cache   *)
(* and its own sidecar process.  A handler that never awaits is one step;  *)
(* load_model is split where it leaves the shared store visible to the     *)
(* other instances, upload_model where it awaits the upload stream.        *)
(***************************************************************************)
EXTENDS Integers, Sequences, FiniteSets, TLC

\* ------------------------------------------------------------------ domains
Replicas == {"r1", "r2"}
ModelIds == {"m1", "m2"}
\* The ids of ModelIds start with "ocid", as the OCIDs of the model catalog do;
\* PlainIds are ids of any other form.
PlainIds == {"p1"}
Names == {"n1", "n2"}
NoName == "none"

CONDA_HOME == "env1"
OtherSlug == "env2"
NoSlug == "none"

API_SECRET == "oci-mmis-api-oct02"
BadApiSecret == "guess"

\* Longest model_cache list explored (the list itself is unbounded).
MaxCache == 2

\* Highest inf_calls explored (the counter itself is unbounded).
MaxCalls == 1
\* How many times a server process is started again.
MaxBoots == 1

\* What running score.py does: predict returns, predict raises, or the module
\* cannot be executed.
Outcomes == {"results", "raises", "broken"}

\* Job ids run_batch_inference_and_score can draw, the scoring workers, and the
\* most rows the job table takes.
JobIds == {"ID-1", "ID-2"}
Workers == {"w1", "w2"}
MaxJobs == 2

\* uuid4 values: one per server instance, one per sidecar instance.
VARIABLES
    boots        \* how many times each server process has been started again

\* server_uuid: a uuid4 drawn when the server process starts
ServerUuid(r) == <<"server", r, boots[r]>>
SidecarUuid(r) == <<"sidecar", r>>
NoneUuid == <<"none", "none">>
\* What a caller that is not the sidecar sends as 'secret' to register_llm:
\* nothing it knows, or the uuid of the other server instance.
SpoofSecrets == {ServerUuid(r) : r \in Replicas} \cup {NoneUuid}

\* A model artifact directory of the store: which of the two required files it
\* holds and the INFERENCE_ENV_SLUG of its runtime.yaml.
NoDir == [exists |-> FALSE, score |-> FALSE, runtime |-> FALSE, slug |-> NoSlug]
EmptyDir == [exists |-> TRUE, score |-> FALSE, runtime |-> FALSE, slug |-> NoSlug]

\* Zip archives a client, the model catalog or the object store can deliver.
Archives ==
    { [score |-> TRUE,  runtime |-> TRUE,  slug |-> CONDA_HOME],
      [score |-> FALSE, runtime |-> TRUE,  slug |-> CONDA_HOME],
      [score |-> TRUE,  runtime |-> FALSE, slug |-> NoSlug],
      [score |-> TRUE,  runtime |-> TRUE,  slug |-> OtherSlug],
      [score |-> FALSE, runtime |-> TRUE,  slug |-> OtherSlug] }

\* What the model catalog answers to load_model: get_model fails or returns the
\* lifecycle state and the SlugName metadata; get_model_artifact_content fails
\* or streams the archive.  One answer per path of the handler.
CatalogAnswers ==
    { [meta_ok |-> FALSE, active |-> TRUE,  slug |-> CONDA_HOME, fetch_ok |-> TRUE],
      [meta_ok |-> TRUE,  active |-> FALSE, slug |-> CONDA_HOME, fetch_ok |-> TRUE],
      [meta_ok |-> TRUE,  active |-> TRUE,  slug |-> OtherSlug,  fetch_ok |-> TRUE],
      [meta_ok |-> TRUE,  active |-> TRUE,  slug |-> NoSlug,     fetch_ok |-> TRUE],
      [meta_ok |-> TRUE,  active |-> TRUE,  slug |-> CONDA_HOME, fetch_ok |-> FALSE],
      [meta_ok |-> TRUE,  active |-> TRUE,  slug |-> CONDA_HOME, fetch_ok |-> TRUE] }

\* The models and replicas the lifecycle specification exercises.
SpecModels == {"m1"}
\* The display names and the archives the transfer specification uses: the
\* sidecar looks for score.py only.
TransferNames == {"n1"}
TransferArchives == {a \in Archives : a.slug # OtherSlug}

NoCfg == [mid |-> "none", model_name |-> NoName, server_secret |-> NoneUuid,
          status |-> "none"]

NoTemp == [exists |-> FALSE, model_name |-> NoName,
           server_secret |-> NoneUuid, sidecar_secret |-> NoneUuid]

VARIABLES
    dirs,        \* store/models/<model_id>: [ModelIds -> directory state]
    registry,    \* model_registry.json: model_id -> display name (no file = empty)
    temp,        \* store/models/temp_<model_id>: the upload requests
    cache,       \* model_cache of each server instance: a list of ModelCache
    sidecar_uuid,\* the sidecar id each server instance has registered
    loading,     \* the model an instance's load_model is fetching, or Idle
    uploading,   \* the models whose upload stream an instance is awaiting
    sc,          \* the sidecar processes
    regbuf,      \* the registry file as an instance has read it and not yet written back
    last         \* the response of the handler that completed last

VARIABLES
    jobs,        \* table INF_JOBS: the rows in insertion order (id BIGSERIAL)
    wk,          \* the scoring workers: where each is in its main_loop
    observed,    \* job ids for which get_inference_job has returned COMPLETED or FAILED
    scored,      \* rows (table ids) whose pipeline a worker has finished with success
    jlast        \* the last response of the job endpoints, or the last turn of a worker

lifecycleVars == <<dirs, registry, temp, cache, sidecar_uuid, loading, uploading, sc,
                   regbuf, last, boots>>
jobVars == <<jobs, wk, observed, scored, jlast>>
vars == <<lifecycleVars, regbuf, boots, jobVars>>

\* ------------------------------------------------------------------ helpers
ModelCache(name, ocid) == [model_name |-> name, model_ocid |-> ocid, inf_calls |-> 0]

model_present_in_cache(c, model_id) ==
    \E i \in 1..Len(c) : c[i].model_ocid = model_id

model_present_in_registry(reg, model_id) == model_id \in DOMAIN reg

\* save_model_in_cache(model_id, model_name=...)
\* save_model_in_cache(model_id, model_name=...) that appends nothing
save_named_in_cache_skip(c, model_id, mname) == c

save_named_in_cache(c, model_id, mname) == Append(c, ModelCache(mname, model_id))

\* save_model_in_cache(model_id) that takes the model id for the display name
save_model_in_cache_byid(c, reg, model_id) ==
    IF model_id \in DOMAIN reg THEN Append(c, ModelCache(model_id, model_id)) ELSE c

\* save_model_in_cache(model_id): the name comes from the registry file
save_model_in_cache(c, reg, model_id) ==
    IF model_id \in DOMAIN reg THEN Append(c, ModelCache(reg[model_id], model_id)) ELSE c

\* save_model_in_registry that leaves the registry file as it is
save_model_in_registry_unsaved(reg, model_id, model_name) == reg

save_model_in_registry(reg, model_id, model_name) ==
    [m \in (DOMAIN reg) \cup {model_id} |-> IF m = model_id THEN model_name ELSE reg[m]]

\* del model_registry[model_id]; an empty registry removes the file
remove_model_from_registry(reg, model_id) ==
    [m \in (DOMAIN reg) \ {model_id} |-> reg[m]]

\* remove_model_from_cache that keeps the list as it is
remove_model_from_cache_kept(c, model_id) == c

remove_model_from_cache(c, model_id) ==
    SelectSeq(c, LAMBDA e : e.model_ocid # model_id)

\* ZipFile.extractall into a directory: files of the archive replace files of
\* the same name, every other file of the directory stays.
ExtractAll(dir, a) ==
    [exists |-> TRUE,
     score |-> dir.score \/ a.score,
     runtime |-> dir.runtime \/ a.runtime,
     slug |-> IF a.runtime THEN a.slug ELSE dir.slug]

\* Whether a request repeats the last one: when it arrives, the handler that
\* completed last answered the same operation on the same model with success,
\* on the same instance ("same") or on another ("other").
Repeats(op, r, m) ==
    IF last.op = op /\ last.mid = m /\ last.code \in {200, 201}
    THEN (IF last.rep = r THEN "same" ELSE "other")
    ELSE "no"

\* The response of a handler that ran without interruption: its HTTP status
\* code and the branch that produced it.
Response(op, r, m, code, via) ==
    [op |-> op, rep |-> r, mid |-> m, code |-> code, via |-> via,
     repeat |-> Repeats(op, r, m)]

\* The response of a handler that other handlers could overtake: rpt is what
\* Repeats told when the request arrived.
LateResponse(op, r, m, code, via, rpt) ==
    [op |-> op, rep |-> r, mid |-> m, code |-> code, via |-> via, repeat |-> rpt]

Idle == [mid |-> "idle", repeat |-> "no", caller |-> "none"]

\* No registry content read and waiting to be written back.
NoBuf == [has |-> FALSE, reg |-> << >>]
Busy(r) == loading[r] # Idle

\* ------------------------------------------------------------------ load_model
\* load_model that enters the model in the cache before it fetches the archive
LoadChecks_cachefirst(op, r, m, cat) ==
    /\ ~Busy(r)
    /\ IF model_present_in_cache(cache[r], m)
       THEN /\ last' = Response(op, r, m, 409, "cached")
            /\ UNCHANGED <<cache, loading>>
       ELSE IF model_present_in_registry(registry, m)
       THEN /\ Len(cache[r]) < MaxCache
            /\ cache' = [cache EXCEPT ![r] = save_model_in_cache(cache[r], registry, m)]
            /\ last' = Response(op, r, m, 409, "adopted")
            /\ UNCHANGED loading
       ELSE IF ~cat.meta_ok
       THEN /\ last' = Response(op, r, m, 500, "metadata")
            /\ UNCHANGED <<cache, loading>>
       ELSE IF ~cat.active
       THEN /\ last' = Response(op, r, m, 400, "inactive")
            /\ UNCHANGED <<cache, loading>>
       ELSE IF cat.slug # CONDA_HOME
       THEN /\ last' = Response(op, r, m, 400, "slug")
            /\ UNCHANGED <<cache, loading>>
       ELSE IF ~cat.fetch_ok
       THEN /\ last' = Response(op, r, m, 500, "artifact")
            /\ cache' = [cache EXCEPT ![r] = save_named_in_cache(cache[r], m, NoName)]
            /\ UNCHANGED loading
       ELSE /\ Len(cache[r]) < MaxCache
            /\ loading' = [loading EXCEPT ![r] =
                              [mid |-> m, repeat |-> Repeats(op, r, m), caller |-> op]]
            /\ UNCHANGED <<cache, last>>
    /\ UNCHANGED <<dirs, registry, temp, sidecar_uuid, uploading, sc, regbuf, boots, jobVars>>

\* load_model up to the download of the archive, called by the handler op:
\* by the load_model endpoint itself or by get_model_metadata, whose response
\* is then the HTTPException load_model raises.
LoadChecks(op, r, m, cat) ==
    /\ ~Busy(r)
    /\ IF model_present_in_cache(cache[r], m)
       THEN /\ last' = Response(op, r, m, 409, "cached")
            /\ UNCHANGED <<cache, loading>>
       ELSE IF model_present_in_registry(registry, m)
       THEN /\ Len(cache[r]) < MaxCache
            /\ cache' = [cache EXCEPT ![r] = save_model_in_cache(cache[r], registry, m)]
            /\ last' = Response(op, r, m, 409, "adopted")
            /\ UNCHANGED loading
       ELSE IF ~cat.meta_ok
       THEN /\ last' = Response(op, r, m, 500, "metadata")
            /\ UNCHANGED <<cache, loading>>
       ELSE IF ~cat.active
       THEN /\ last' = Response(op, r, m, 400, "inactive")
            /\ UNCHANGED <<cache, loading>>
       ELSE IF cat.slug # CONDA_HOME
       THEN /\ last' = Response(op, r, m, 400, "slug")
            /\ UNCHANGED <<cache, loading>>
       ELSE IF ~cat.fetch_ok
       THEN /\ last' = Response(op, r, m, 500, "artifact")
            /\ UNCHANGED <<cache, loading>>
       ELSE /\ Len(cache[r]) < MaxCache
            /\ loading' = [loading EXCEPT ![r] =
                              [mid |-> m, repeat |-> Repeats(op, r, m), caller |-> op]]
            /\ UNCHANGED <<cache, last>>
    /\ UNCHANGED <<dirs, registry, temp, sidecar_uuid, uploading, sc, regbuf, boots, jobVars>>

LoadBegin(r, m, cat) == LoadChecks("load_model", r, m, cat)

\* The response once the model is installed in directory d: load_model answers
\* 200; get_model_metadata goes on to open runtime.yaml.
LoadAnswer(r, m, d) ==
    IF loading[r].caller = "get_model_metadata"
    THEN LateResponse("get_model_metadata", r, m, IF d.runtime THEN 200 ELSE 500,
                      IF d.runtime THEN "loaded" ELSE "nofile", loading[r].repeat)
    ELSE LateResponse("load_model", r, m, 200, "loaded", loading[r].repeat)

LoadFinish(r, mname, a) ==
    /\ Busy(r)
    /\ ~regbuf[r].has
    /\ LET m == loading[r].mid
           dir == IF dirs[m].exists THEN dirs[m] ELSE EmptyDir
       IN /\ dirs' = [dirs EXCEPT ![m] = ExtractAll(dir, a)]
          /\ registry' = save_model_in_registry(registry, m, mname)
          /\ cache' = [cache EXCEPT ![r] = save_named_in_cache(cache[r], m, mname)]
          /\ last' = LoadAnswer(r, m, ExtractAll(dir, a))
    /\ loading' = [loading EXCEPT ![r] = Idle]
    /\ UNCHANGED <<temp, sidecar_uuid, uploading, sc, regbuf, boots, jobVars>>

\* load_model at the grain of the registry file, which the instances share:
\* save_model_in_registry reads the file, sets the entry and writes the file,
\* and another instance can write between the read and the write.
\* LoadExtract: extraction and the read of the registry file.
LoadExtract(r, a) ==
    /\ Busy(r)
    /\ ~regbuf[r].has
    /\ LET m == loading[r].mid
           dir == IF dirs[m].exists THEN dirs[m] ELSE EmptyDir
       IN dirs' = [dirs EXCEPT ![m] = ExtractAll(dir, a)]
    /\ regbuf' = [regbuf EXCEPT ![r] = [has |-> TRUE, reg |-> registry]]
    /\ UNCHANGED <<registry, temp, cache, sidecar_uuid, loading, uploading, sc, last, boots, jobVars>>

\* LoadRegister that leaves the instance's cache as it is
LoadRegister_uncached(r, mname) ==
    /\ Busy(r)
    /\ regbuf[r].has
    /\ LET m == loading[r].mid
       IN /\ registry' = save_model_in_registry(regbuf[r].reg, m, mname)
          /\ last' = LoadAnswer(r, m, dirs[m])
    /\ loading' = [loading EXCEPT ![r] = Idle]
    /\ regbuf' = [regbuf EXCEPT ![r] = NoBuf]
    /\ UNCHANGED <<dirs, temp, cache, sidecar_uuid, uploading, sc, boots, jobVars>>

\* LoadRegister: the write of the registry file, the cache and the response.
LoadRegister(r, mname) ==
    /\ Busy(r)
    /\ regbuf[r].has
    /\ LET m == loading[r].mid
       IN /\ registry' = save_model_in_registry(regbuf[r].reg, m, mname)
          /\ cache' = [cache EXCEPT ![r] = save_named_in_cache(cache[r], m, mname)]
          /\ last' = LoadAnswer(r, m, dirs[m])
    /\ loading' = [loading EXCEPT ![r] = Idle]
    /\ regbuf' = [regbuf EXCEPT ![r] = NoBuf]
    /\ UNCHANGED <<dirs, temp, sidecar_uuid, uploading, sc, boots, jobVars>>

\* ------------------------------------------------------------------ upload_model
\* The checks after extraction without the comparison of the slug
validate_upload_anyslug(d) ==
    IF ~d.score \/ ~d.runtime THEN 422
    ELSE IF d.slug = NoSlug THEN 422
    ELSE 201

\* The checks after extraction: both required files, then the slug.
validate_upload(d) ==
    IF ~d.score \/ ~d.runtime THEN 422
    ELSE IF d.slug = NoSlug THEN 422
    ELSE IF d.slug # CONDA_HOME THEN 400
    ELSE 201

\* Up to the first await on the upload stream.
UploadBegin(r, m, zip) ==
    /\ ~Busy(r)
    /\ \A u \in uploading[r] : u.mid # m
    /\ IF ~zip
       THEN /\ last' = Response("upload_model", r, m, 415, "notzip")
            /\ UNCHANGED <<dirs, cache, uploading>>
       ELSE IF model_present_in_cache(cache[r], m)
       THEN /\ last' = Response("upload_model", r, m, 409, "cached")
            /\ UNCHANGED <<dirs, cache, uploading>>
       ELSE IF model_present_in_registry(registry, m)
       THEN /\ Len(cache[r]) < MaxCache
            /\ cache' = [cache EXCEPT ![r] = save_model_in_cache(cache[r], registry, m)]
            /\ last' = Response("upload_model", r, m, 409, "adopted")
            /\ UNCHANGED <<dirs, uploading>>
       ELSE /\ dirs' = [dirs EXCEPT ![m] = IF dirs[m].exists THEN dirs[m] ELSE EmptyDir]
            /\ uploading' = [uploading EXCEPT ![r] =
                                @ \cup {[mid |-> m, repeat |-> Repeats("upload_model", r, m)]}]
            /\ UNCHANGED <<cache, last>>
    /\ UNCHANGED <<registry, temp, sidecar_uuid, loading, sc, regbuf, boots, jobVars>>

\* From the end of the stream to the response.
UploadFinish(r, m, mname, a, stream_ok) ==
    /\ ~Busy(r)
    /\ \E u \in uploading[r] :
         /\ u.mid = m
         /\ uploading' = [uploading EXCEPT ![r] = @ \ {u}]
         /\ IF ~stream_ok
            THEN /\ last' = LateResponse("upload_model", r, m, 500, "stream", u.repeat)
                 /\ UNCHANGED <<dirs, registry, cache>>
            ELSE LET d == ExtractAll(dirs[m], a)
                     code == validate_upload(d)
                 IN IF code # 201
                    THEN /\ dirs' = [dirs EXCEPT ![m] = NoDir]
                         /\ last' = LateResponse("upload_model", r, m, code, "invalid", u.repeat)
                         /\ UNCHANGED <<registry, cache>>
                    ELSE /\ Len(cache[r]) < MaxCache
                         /\ dirs' = [dirs EXCEPT ![m] = d]
                         /\ registry' = save_model_in_registry(registry, m, mname)
                         /\ cache' = [cache EXCEPT ![r] = save_named_in_cache(cache[r], m, mname)]
                         /\ last' = LateResponse("upload_model", r, m, 201, "uploaded", u.repeat)
    /\ UNCHANGED <<temp, sidecar_uuid, loading, sc, regbuf, boots, jobVars>>

\* The uploaded file is not a readable zip archive: ZipFile raises, no handler
\* catches it and the request is answered 500 with the directory as it is.
UploadCorrupt(r, m) ==
    /\ ~Busy(r)
    /\ \E u \in uploading[r] :
         /\ u.mid = m
         /\ uploading' = [uploading EXCEPT ![r] = @ \ {u}]
         /\ last' = LateResponse("upload_model", r, m, 500, "badzip", u.repeat)
    /\ UNCHANGED <<dirs, registry, temp, cache, sidecar_uuid, loading, sc, regbuf, boots, jobVars>>

\* ------------------------------------------------------------------ remove_model
\* remove_model that cleans registry and cache before it looks for the directory
RemoveModel_cleanfirst(r, m) ==
    /\ ~Busy(r)
    /\ registry' = remove_model_from_registry(registry, m)
    /\ cache' = [cache EXCEPT ![r] = remove_model_from_cache(cache[r], m)]
    /\ IF dirs[m].exists
       THEN /\ dirs' = [dirs EXCEPT ![m] = NoDir]
            /\ last' = Response("remove_model", r, m, 200, "removed")
       ELSE /\ last' = Response("remove_model", r, m, 404, "nodir")
            /\ UNCHANGED dirs
    /\ UNCHANGED <<temp, sidecar_uuid, loading, uploading, sc, regbuf, boots, jobVars>>

RemoveModel(r, m) ==
    /\ ~Busy(r)
    /\ IF dirs[m].exists
       THEN /\ dirs' = [dirs EXCEPT ![m] = NoDir]
            /\ IF m \in DOMAIN registry
               THEN /\ registry' = remove_model_from_registry(registry, m)
                    /\ cache' = [cache EXCEPT ![r] = remove_model_from_cache(cache[r], m)]
                    /\ last' = Response("remove_model", r, m, 200, "removed")
               ELSE \* open() of a missing registry file or del of a missing key raises
                    /\ last' = Response("remove_model", r, m, 500, "registry")
                    /\ UNCHANGED <<registry, cache>>
       ELSE /\ last' = Response("remove_model", r, m, 404, "nodir")
            /\ UNCHANGED <<dirs, registry, cache>>
    /\ UNCHANGED <<temp, sidecar_uuid, loading, uploading, sc, regbuf, boots, jobVars>>

\* ------------------------------------------------------------------ get_model_metadata
\* get_model_metadata(model_id): an id that starts with "ocid" is answered from
\* runtime.yaml, after load_model if the file is missing; any other id from
\* the instance's cache, with an empty answer if it has no entry.
GetMetadata(r, m, cat) ==
    IF m \in PlainIds
    THEN /\ ~Busy(r)
         /\ last' = Response("get_model_metadata", r, m, 200,
                              IF model_present_in_cache(cache[r], m) THEN "entry" ELSE "empty")
         /\ UNCHANGED <<dirs, registry, temp, cache, sidecar_uuid, loading, uploading,
                        sc, regbuf, boots, jobVars>>
    ELSE IF dirs[m].runtime
    THEN /\ ~Busy(r)
         /\ last' = Response("get_model_metadata", r, m, 200, "metadata")
         /\ UNCHANGED <<dirs, registry, temp, cache, sidecar_uuid, loading, uploading,
                        sc, regbuf, boots, jobVars>>
    ELSE LoadChecks("get_model_metadata", r, m, cat)

\* ------------------------------------------------------------------ infer_data
\* inf_calls of the first cache entry of model_id, 0 with no entry
inf_calls_of(c, model_id) ==
    IF model_present_in_cache(c, model_id)
    THEN LET i == CHOOSE i \in 1..Len(c) :
                    /\ c[i].model_ocid = model_id
                    /\ \A j \in 1..(i - 1) : c[j].model_ocid # model_id
         IN c[i].inf_calls
    ELSE 0

\* The loop over model_cache: inf_calls += 1 on the first entry of model_id
count_inference(c, model_id) ==
    [i \in 1..Len(c) |->
        IF /\ c[i].model_ocid = model_id
           /\ \A j \in 1..(i - 1) : c[j].model_ocid # model_id
        THEN [c[i] EXCEPT !.inf_calls = @ + 1]
        ELSE c[i]]

\* infer_data(model_id, data): data says whether the body is non-empty
InferData(r, m, data, outcome) ==
    /\ ~Busy(r)
    /\ IF ~data
       THEN /\ last' = Response("infer_data", r, m, 400, "nodata")
            /\ UNCHANGED cache
       ELSE IF ~dirs[m].score
       THEN /\ cache' = [cache EXCEPT ![r] = remove_model_from_cache(cache[r], m)]
            /\ last' = Response("infer_data", r, m, 400, "noartifact")
       ELSE IF outcome = "broken"
       THEN /\ last' = Response("infer_data", r, m, 500, "module")
            /\ UNCHANGED cache
       ELSE IF outcome = "raises"
       THEN /\ last' = Response("infer_data", r, m, 422, "predict")
            /\ UNCHANGED cache
       ELSE IF model_present_in_cache(cache[r], m)
       THEN /\ inf_calls_of(cache[r], m) < MaxCalls
            /\ cache' = [cache EXCEPT ![r] = count_inference(cache[r], m)]
            /\ last' = Response("infer_data", r, m, 200, "results")
       ELSE IF registry = << >>
       THEN /\ last' = Response("infer_data", r, m, 500, "registry")
            /\ UNCHANGED cache
       ELSE /\ Len(cache[r]) < MaxCache
            /\ cache' = [cache EXCEPT ![r] =
                            count_inference(save_model_in_cache(cache[r], registry, m), m)]
            /\ last' = Response("infer_data", r, m, 200, "results")
    /\ UNCHANGED <<dirs, registry, temp, sidecar_uuid, loading, uploading, sc, regbuf, boots, jobVars>>

\* ------------------------------------------------------------------ upload_large_language_model
\* upload_large_language_model that does not look for a temp directory
UploadLLM_overwrite(r, m, mname, zip) ==
    /\ ~Busy(r)
    /\ IF ~zip
       THEN /\ last' = Response("upload_llm", r, m, 400, "notzip")
            /\ UNCHANGED temp
       ELSE IF dirs[m].exists
       THEN /\ last' = Response("upload_llm", r, m, 422, "direxists")
            /\ UNCHANGED temp
       ELSE /\ temp' = [temp EXCEPT ![m] =
                          [exists |-> TRUE, model_name |-> mname,
                           server_secret |-> ServerUuid(r),
                           sidecar_secret |-> sidecar_uuid[r]]]
            /\ last' = Response("upload_llm", r, m, 201, "accepted")
    /\ UNCHANGED <<dirs, registry, cache, sidecar_uuid, loading, uploading, sc, regbuf, boots, jobVars>>

UploadLLM(r, m, mname, zip) ==
    /\ ~Busy(r)
    /\ IF ~zip
       THEN /\ last' = Response("upload_llm", r, m, 400, "notzip")
            /\ UNCHANGED temp
       ELSE IF dirs[m].exists
       THEN /\ last' = Response("upload_llm", r, m, 422, "direxists")
            /\ UNCHANGED temp
       ELSE IF temp[m].exists
       THEN /\ last' = Response("upload_llm", r, m, 422, "pending")
            /\ UNCHANGED temp
       ELSE /\ temp' = [temp EXCEPT ![m] =
                          [exists |-> TRUE, model_name |-> mname,
                           server_secret |-> ServerUuid(r),
                           sidecar_secret |-> sidecar_uuid[r]]]
            /\ last' = Response("upload_llm", r, m, 201, "accepted")
    /\ UNCHANGED <<dirs, registry, cache, sidecar_uuid, loading, uploading, sc, regbuf, boots, jobVars>>

\* ------------------------------------------------------------------ register_llm
\* register_llm without the comparison of the secret
register_llm_open(r, mname, m, status, secret) ==
    IF status = "COMPLETED"
    THEN /\ Len(cache[r]) < MaxCache
         /\ registry' = save_model_in_registry(registry, m, mname)
         /\ cache' = [cache EXCEPT ![r] = save_named_in_cache(cache[r], m, mname)]
         /\ last' = Response("register_llm", r, m, 200, "registered")
    ELSE /\ last' = Response("register_llm", r, m, 200, "notregistered")
         /\ UNCHANGED <<registry, cache>>

\* register_llm that registers the model whatever the status says
register_llm_anystatus(r, mname, m, status, secret) ==
    IF secret = ServerUuid(r)
    THEN /\ Len(cache[r]) < MaxCache
         /\ registry' = save_model_in_registry(registry, m, mname)
         /\ cache' = [cache EXCEPT ![r] = save_named_in_cache(cache[r], m, mname)]
         /\ last' = Response("register_llm", r, m, 200, "registered")
    ELSE /\ last' = Response("register_llm", r, m, 401, "unauthorized")
         /\ UNCHANGED <<registry, cache>>

\* The handler's effect on the registry, the cache and the response.
register_llm(r, mname, m, status, secret) ==
    IF secret = ServerUuid(r)
    THEN IF status = "COMPLETED"
         THEN /\ Len(cache[r]) < MaxCache
              /\ registry' = save_model_in_registry(registry, m, mname)
              /\ cache' = [cache EXCEPT ![r] = save_named_in_cache(cache[r], m, mname)]
              /\ last' = Response("register_llm", r, m, 200, "registered")
         ELSE /\ last' = Response("register_llm", r, m, 200, "notregistered")
              /\ UNCHANGED <<registry, cache>>
    ELSE /\ last' = Response("register_llm", r, m, 401, "unauthorized")
         /\ UNCHANGED <<registry, cache>>

\* A caller other than the sidecar: it does not hold the server's uuid.
SpoofRegisterLLM(r, mname, m, status, secret) ==
    /\ ~Busy(r)
    /\ secret # ServerUuid(r)
    /\ register_llm(r, mname, m, status, secret)
    /\ UNCHANGED <<dirs, temp, sidecar_uuid, loading, uploading, sc, regbuf, boots, jobVars>>

\* ------------------------------------------------------------------ register_sidecar
register_sidecar(r, api_secret, sidecar_id) ==
    IF api_secret = API_SECRET
    THEN /\ sidecar_uuid' = [sidecar_uuid EXCEPT ![r] = sidecar_id]
         /\ last' = Response("register_sidecar", r, "none", 200, "registered")
    ELSE /\ last' = Response("register_sidecar", r, "none", 401, "unauthorized")
         /\ UNCHANGED sidecar_uuid

SpoofRegisterSidecar(r, sidecar_id) ==
    /\ ~Busy(r)
    /\ register_sidecar(r, BadApiSecret, sidecar_id)
    /\ UNCHANGED <<dirs, registry, temp, cache, loading, uploading, sc, regbuf, boots, jobVars>>

\* ------------------------------------------------------------------ sidecar-server.py
\* isModelArtifactDirPresent that never finds the directory
isModelArtifactDirPresent_never(d, model_id) == FALSE

isModelArtifactDirPresent(d, model_id) == d[model_id].exists

\* registerSidecarContainerWithServer: the POST to the local server instance
ScRegister(s) ==
    /\ sc[s].pc = "register"
    /\ ~Busy(s)
    /\ register_sidecar(s, API_SECRET, SidecarUuid(s))
    /\ sc' = [sc EXCEPT ![s].pc = "poll"]
    /\ UNCHANGED <<dirs, registry, temp, cache, loading, uploading, regbuf, boots, jobVars>>

\* A turn of main_loop that finds no temp directory: getModelConfig returns
\* None and the loop sleeps WAIT_TIME seconds.
ScSleep(s) ==
    /\ sc[s].pc = "poll"
    /\ \A m \in ModelIds : ~temp[m].exists
    /\ last' = Response("sidecar", s, "none", 0, "nowork")
    /\ UNCHANGED <<dirs, registry, temp, cache, sidecar_uuid, loading, uploading, sc, regbuf, boots, jobVars>>

\* A turn of main_loop whose getModelConfig does not compare the sidecar secret
ScPoll_anysecret(s, m) ==
    /\ sc[s].pc = "poll"
    /\ temp[m].exists
    /\ IF isModelArtifactDirPresent(dirs, m)
       THEN /\ temp' = [temp EXCEPT ![m] = NoTemp]
            /\ last' = Response("sidecar", s, m, 0, "discarded")
            /\ UNCHANGED sc
       ELSE /\ sc' = [sc EXCEPT ![s] =
                        [pc |-> "download",
                         cfg |-> [mid |-> m, model_name |-> temp[m].model_name,
                                  server_secret |-> temp[m].server_secret,
                                  status |-> "none"]]]
            /\ last' = Response("sidecar", s, m, 0, "accepted")
            /\ UNCHANGED temp
    /\ UNCHANGED <<dirs, registry, cache, sidecar_uuid, loading, uploading, regbuf, boots, jobVars>>

\* A turn of main_loop up to the download.  temp_<m> is the first temp
\* directory of the listing (any of them: the order is the file system's);
\* getModelConfig returns its request only if it carries this sidecar's uuid.
ScPoll(s, m) ==
    /\ sc[s].pc = "poll"
    /\ temp[m].exists
    /\ IF temp[m].sidecar_secret # SidecarUuid(s)
       THEN /\ last' = Response("sidecar", s, "none", 0, "nowork")
            /\ UNCHANGED <<temp, sc>>
       ELSE IF isModelArtifactDirPresent(dirs, m)
       THEN /\ temp' = [temp EXCEPT ![m] = NoTemp]
            /\ last' = Response("sidecar", s, m, 0, "discarded")
            /\ UNCHANGED sc
       ELSE /\ sc' = [sc EXCEPT ![s] =
                        [pc |-> "download",
                         cfg |-> [mid |-> m, model_name |-> temp[m].model_name,
                                  server_secret |-> temp[m].server_secret,
                                  status |-> "none"]]]
            /\ last' = Response("sidecar", s, m, 0, "accepted")
            /\ UNCHANGED temp
    /\ UNCHANGED <<dirs, registry, cache, sidecar_uuid, loading, uploading, regbuf, boots, jobVars>>

\* downloadModelArtifacts; an exception takes the except branch of main_loop
ScDownload(s, ok) ==
    /\ sc[s].pc = "download"
    /\ IF ok
       THEN /\ sc' = [sc EXCEPT ![s].pc = "save"]
            /\ UNCHANGED temp
       ELSE /\ temp' = [temp EXCEPT ![sc[s].cfg.mid] = NoTemp]
            /\ sc' = [sc EXCEPT ![s].pc = "notify", ![s].cfg.status = "FAILED"]
    /\ UNCHANGED <<dirs, registry, cache, sidecar_uuid, loading, uploading, last, regbuf, boots, jobVars>>

\* saveModelArtifacts with the downloaded archive a
ScSave(s, a) ==
    /\ sc[s].pc = "save"
    /\ LET m == sc[s].cfg.mid
           d == ExtractAll(EmptyDir, a)
       IN /\ temp' = [temp EXCEPT ![m] = NoTemp]
          /\ IF ~d.score
             THEN /\ dirs' = [dirs EXCEPT ![m] = NoDir]
                  /\ sc' = [sc EXCEPT ![s] = [pc |-> "poll", cfg |-> NoCfg]]
                  /\ last' = Response("sidecar", s, m, 0, "invalid")
             ELSE /\ dirs' = [dirs EXCEPT ![m] = d]
                  /\ sc' = [sc EXCEPT ![s].pc = "notify", ![s].cfg.status = "COMPLETED"]
                  /\ UNCHANGED last
    /\ UNCHANGED <<registry, cache, sidecar_uuid, loading, uploading, regbuf, boots, jobVars>>

\* notifyModelServer: the POST to register_llm of the local server instance
ScNotify(s) ==
    /\ sc[s].pc = "notify"
    /\ ~Busy(s)
    /\ register_llm(s, sc[s].cfg.model_name, sc[s].cfg.mid, sc[s].cfg.status,
                    sc[s].cfg.server_secret)
    /\ sc' = [sc EXCEPT ![s] = [pc |-> "poll", cfg |-> NoCfg]]
    /\ UNCHANGED <<dirs, temp, sidecar_uuid, loading, uploading, regbuf, boots, jobVars>>

\* saveModelArtifacts with an archive that is not a readable zip file: the
\* artifact directory is made, ZipFile raises, and the except branch of
\* main_loop deletes the temp directory and sets the status FAILED.
ScSaveCorrupt(s) ==
    /\ sc[s].pc = "save"
    /\ LET m == sc[s].cfg.mid
       IN /\ dirs' = [dirs EXCEPT ![m] = EmptyDir]
          /\ temp' = [temp EXCEPT ![m] = NoTemp]
    /\ sc' = [sc EXCEPT ![s].pc = "notify", ![s].cfg.status = "FAILED"]
    /\ UNCHANGED <<registry, cache, sidecar_uuid, loading, uploading, last, regbuf, boots, jobVars>>

\* notifyModelServer when the POST raises (the server cannot be reached or
\* answers no JSON).  With status COMPLETED the call is inside the try block:
\* the except branch calls rmtree on the temp directory, which raises if
\* saveModelArtifacts has deleted it, and else sets FAILED and notifies again.
\* With status FAILED the call is inside the except branch.  An exception
\* raised in the except branch leaves main_loop and the process ends.
ScNotifyFails(s) ==
    /\ sc[s].pc = "notify"
    /\ LET m == sc[s].cfg.mid
       IN IF sc[s].cfg.status = "COMPLETED" /\ temp[m].exists
          THEN /\ temp' = [temp EXCEPT ![m] = NoTemp]
               /\ sc' = [sc EXCEPT ![s].cfg.status = "FAILED"]
               /\ UNCHANGED last
          ELSE /\ sc' = [sc EXCEPT ![s] = [pc |-> "crashed", cfg |-> NoCfg]]
               /\ last' = Response("sidecar", s, m, 0, "crashed")
               /\ UNCHANGED temp
    /\ UNCHANGED <<dirs, registry, cache, sidecar_uuid, loading, uploading, regbuf, boots, jobVars>>

\* ------------------------------------------------------------------ server start
\* load_models_in_cache: the cache lists a server process can build from the
\* directories S that the registry reg names, in the order os.listdir gives.
RECURSIVE load_models_in_cache(_, _)
load_models_in_cache(S, reg) ==
    IF S = {}
    THEN {<< >>}
    ELSE UNION {{<<ModelCache(reg[m], m)>> \o q : q \in load_models_in_cache(S \ {m}, reg)} :
                m \in S}

\* The server process of instance r is started again: the module's globals are
\* initialised (a new server_uuid, sidecar_uuid None, an empty model_cache),
\* the handlers that were running are gone, and load_models_in_cache deletes
\* every temp directory, then returns if there is no registry file, else caches
\* the directories the registry names and deletes the others.
ServerStart(r) ==
    /\ boots[r] < MaxBoots
    /\ boots' = [boots EXCEPT ![r] = @ + 1]
    /\ sidecar_uuid' = [sidecar_uuid EXCEPT ![r] = NoneUuid]
    /\ loading' = [loading EXCEPT ![r] = Idle]
    /\ uploading' = [uploading EXCEPT ![r] = {}]
    /\ regbuf' = [regbuf EXCEPT ![r] = NoBuf]
    /\ temp' = [m \in ModelIds |-> NoTemp]
    /\ IF registry = << >>
       THEN /\ cache' = [cache EXCEPT ![r] = << >>]
            /\ UNCHANGED dirs
       ELSE /\ \E c \in load_models_in_cache(
                         {m \in ModelIds : dirs[m].exists /\ m \in DOMAIN registry},
                         registry) :
                  cache' = [cache EXCEPT ![r] = c]
            /\ dirs' = [m \in ModelIds |->
                          IF dirs[m].exists /\ m \notin DOMAIN registry
                          THEN NoDir ELSE dirs[m]]
    /\ last' = LateResponse("startup", r, "none", 0, "started", "no")
    /\ UNCHANGED <<registry, sc, jobVars>>

\* ------------------------------------------------------------------ async inference jobs
\* INSERT INTO INF_JOBS(data): AsyncInferenceRequest.create_entity
create_entity(table, data) == Append(table, data)

\* SELECT data FROM INF_JOBS WHERE (data ->> 'job_id') = jobid:
\* AsyncInferenceRequest.get_entity_by_id answers the row when exactly one row
\* matches and the "db_msg" object otherwise.
NotFound(jobid) == [found |-> FALSE, job_id |-> jobid, job_status |-> "none", out |-> FALSE]

get_entity_by_id(table, jobid) ==
    LET rows == {i \in 1..Len(table) : table[i].job_id = jobid}
    IN IF Cardinality(rows) = 1
       THEN LET i == CHOOSE i \in rows : TRUE
            IN [found |-> TRUE, job_id |-> jobid, job_status |-> table[i].job_status,
                out |-> table[i].out]
       ELSE NotFound(jobid)

JobResponse(op, code, jobid, status) ==
    [op |-> op, code |-> code, job_id |-> jobid, job_status |-> status]

\* run_batch_inference_and_score that does not look at the model references
Submit_unchecked(jobid, llm, measure, out, db_ok) ==
    /\ IF ~db_ok
       THEN /\ jlast' = JobResponse("submit", 500, "none", "none")
            /\ UNCHANGED jobs
       ELSE /\ Len(jobs) < MaxJobs
            /\ jobs' = create_entity(jobs, [job_id |-> jobid, job_status |-> "ACCEPTED",
                                             out |-> out])
            /\ jlast' = JobResponse("submit", 201, jobid, "ACCEPTED")
    /\ UNCHANGED <<wk, observed, scored, lifecycleVars>>

\* run_batch_inference_and_score with create_resource of the resource manager.
\* jobid is "ID-" and the first 8 hex digits of a fresh uuid4; out tells whether
\* the request names the output artifact (it is optional).
Submit(jobid, llm, measure, out, db_ok) ==
    /\ IF llm = "" /\ measure = ""
       THEN /\ jlast' = JobResponse("submit", 422, "none", "none")
            /\ UNCHANGED jobs
       ELSE IF ~db_ok
       THEN /\ jlast' = JobResponse("submit", 500, "none", "none")
            /\ UNCHANGED jobs
       ELSE /\ Len(jobs) < MaxJobs
            /\ jobs' = create_entity(jobs, [job_id |-> jobid, job_status |-> "ACCEPTED",
                                             out |-> out])
            /\ jlast' = JobResponse("submit", 201, jobid, "ACCEPTED")
    /\ UNCHANGED <<wk, observed, scored, lifecycleVars>>

\* get_inference_job that answers 404 for a job id without a row
GetJob_strict(jobid, db_ok) ==
    /\ IF ~db_ok
       THEN /\ jlast' = JobResponse("getjob", 500, jobid, "none")
            /\ UNCHANGED observed
       ELSE LET d == get_entity_by_id(jobs, jobid)
            IN /\ jlast' = JobResponse("getjob", IF d.found THEN 200 ELSE 404, jobid,
                                       d.job_status)
               /\ observed' = IF d.job_status \in {"COMPLETED", "FAILED"}
                              THEN observed \cup {jobid} ELSE observed
    /\ UNCHANGED <<jobs, wk, scored, lifecycleVars>>

\* get_inference_job with get_resource_details of the resource manager
GetJob(jobid, db_ok) ==
    /\ IF ~db_ok
       THEN /\ jlast' = JobResponse("getjob", 500, jobid, "none")
            /\ UNCHANGED observed
       ELSE LET d == get_entity_by_id(jobs, jobid)
            IN /\ jlast' = JobResponse("getjob", 200, jobid, d.job_status)
               /\ observed' = IF d.job_status \in {"COMPLETED", "FAILED"}
                              THEN observed \cup {jobid} ELSE observed
    /\ UNCHANGED <<jobs, wk, scored, lifecycleVars>>

\* update_resource of the resource manager: it answers and changes no row
UpdateResource(jobid) ==
    /\ jlast' = JobResponse("update_resource", 201, jobid, "COMPLETED")
    /\ UNCHANGED <<jobs, wk, observed, scored, lifecycleVars>>

\* remove_resource that deletes the rows of the job id
RemoveResource_deleting(jobid) ==
    /\ jobs' = SelectSeq(jobs, LAMBDA row : row.job_id # jobid)
    /\ jlast' = JobResponse("remove_resource", 200, jobid, "COMPLETED")
    /\ UNCHANGED <<wk, observed, scored, lifecycleVars>>

\* remove_resource of the resource manager: it answers and changes no row
RemoveResource(jobid) ==
    /\ jlast' = JobResponse("remove_resource", 200, jobid, "COMPLETED")
    /\ UNCHANGED <<jobs, wk, observed, scored, lifecycleVars>>

\* The scoring worker.  scoring-server.py holds its main_loop and, of
\* getAsyncInferenceRequest and processAsyncRequest, the steps as comments only.
\* getAsyncInferenceRequest, first half: read the oldest ACCEPTED row.
OldestAccepted(table) ==
    LET acc == {i \in 1..Len(table) : table[i].job_status = "ACCEPTED"}
    IN IF acc = {} THEN 0 ELSE CHOOSE i \in acc : \A k \in acc : i <= k

WorkerFetch_claiming(w) ==
    /\ wk[w].pc = "poll"
    /\ LET i == OldestAccepted(jobs)
       IN IF i = 0
          THEN /\ jlast' = JobResponse("worker", 0, "none", "norequest")
               /\ UNCHANGED <<wk, jobs>>
          ELSE /\ wk' = [wk EXCEPT ![w] = [pc |-> "mark", row |-> i]]
               /\ jobs' = [jobs EXCEPT ![i].job_status = "PROCESSING"]
               /\ jlast' = JobResponse("worker", 0, jobs[i].job_id, "fetched")
    /\ UNCHANGED <<observed, scored, lifecycleVars>>

WorkerFetch(w) ==
    /\ wk[w].pc = "poll"
    /\ LET i == OldestAccepted(jobs)
       IN IF i = 0
          THEN /\ jlast' = JobResponse("worker", 0, "none", "norequest")
               /\ UNCHANGED wk
          ELSE /\ wk' = [wk EXCEPT ![w] = [pc |-> "mark", row |-> i]]
               /\ jlast' = JobResponse("worker", 0, jobs[i].job_id, "fetched")
    /\ UNCHANGED <<jobs, observed, scored, lifecycleVars>>

\* getAsyncInferenceRequest, second half: update the row read to PROCESSING
WorkerMark(w) ==
    /\ wk[w].pc = "mark"
    /\ jobs' = [jobs EXCEPT ![wk[w].row].job_status = "PROCESSING"]
    /\ wk' = [wk EXCEPT ![w].pc = "process"]
    /\ jlast' = JobResponse("worker", 0, jobs[wk[w].row].job_id, "PROCESSING")
    /\ UNCHANGED <<observed, scored, lifecycleVars>>

\* processAsyncRequest: the pipeline ends with COMPLETED and the output written,
\* or an exception ends it with FAILED
WorkerProcess(w, ok) ==
    /\ wk[w].pc = "process"
    /\ LET i == wk[w].row
       IN IF ok
          THEN /\ jobs' = [jobs EXCEPT ![i].job_status = "COMPLETED", ![i].out = TRUE]
               /\ scored' = scored \cup {i}
               /\ jlast' = JobResponse("worker", 0, jobs[i].job_id, "COMPLETED")
          ELSE /\ jobs' = [jobs EXCEPT ![i].job_status = "FAILED"]
               /\ jlast' = JobResponse("worker", 0, jobs[i].job_id, "FAILED")
               /\ UNCHANGED scored
    /\ wk' = [wk EXCEPT ![w] = [pc |-> "poll", row |-> 0]]
    /\ UNCHANGED <<observed, lifecycleVars>>

JobInit ==
    /\ jobs = << >>
    /\ wk = [w \in Workers |-> [pc |-> "poll", row |-> 0]]
    /\ observed = {}
    /\ scored = {}
    /\ jlast = JobResponse("none", 0, "none", "none")

LifecycleInit ==
    /\ dirs = [m \in ModelIds |-> NoDir]
    /\ registry = << >>
    /\ temp = [m \in ModelIds |-> NoTemp]
    /\ cache = [r \in Replicas |-> << >>]
    /\ sidecar_uuid = [r \in Replicas |-> NoneUuid]
    /\ loading = [r \in Replicas |-> Idle]
    /\ uploading = [r \in Replicas |-> {}]
    /\ sc = [r \in Replicas |-> [pc |-> "register", cfg |-> NoCfg]]
    /\ regbuf = [r \in Replicas |-> NoBuf]
    /\ boots = [r \in Replicas |-> 0]
    /\ last = [op |-> "none", rep |-> "none", mid |-> "none", code |-> 0,
               via |-> "none", repeat |-> "no"]

Init == LifecycleInit /\ JobInit

\* ------------------------------------------------------------------ specifications
\* The server instances on the shared store: load, upload, remove.
Next ==
    \/ \E r \in Replicas, m \in SpecModels, cat \in CatalogAnswers : LoadBegin(r, m, cat)
    \/ \E r \in Replicas, mname \in Names, a \in Archives : LoadFinish(r, mname, a)
    \/ \E r \in Replicas, m \in SpecModels, zip \in BOOLEAN : UploadBegin(r, m, zip)
    \/ \E r \in Replicas, m \in SpecModels, mname \in Names, a \in Archives,
          stream_ok \in BOOLEAN : UploadFinish(r, m, mname, a, stream_ok)
    \/ \E r \in Replicas, m \in SpecModels : RemoveModel(r, m)

Spec == Init /\ [][Next]_vars

\* The server instances with their sidecars: uploads through the sidecar next
\* to direct uploads and removals.
TransferNext ==
    \/ \E r \in Replicas, m \in SpecModels, mname \in TransferNames, zip \in BOOLEAN :
          UploadLLM(r, m, mname, zip)
    \/ \E r \in Replicas, m \in SpecModels, mname \in TransferNames,
          status \in {"COMPLETED", "FAILED"}, secret \in SpoofSecrets :
          SpoofRegisterLLM(r, mname, m, status, secret)
    \/ \E r \in Replicas : SpoofRegisterSidecar(r, SidecarUuid(r))
    \/ \E s \in Replicas : ScRegister(s)
    \/ \E s \in Replicas : ScSleep(s)
    \/ \E s \in Replicas, m \in ModelIds : ScPoll(s, m)
    \/ \E s \in Replicas, ok \in BOOLEAN : ScDownload(s, ok)
    \/ \E s \in Replicas, a \in TransferArchives : ScSave(s, a)
    \/ \E s \in Replicas : ScNotify(s)
    \/ \E r \in Replicas, m \in SpecModels, zip \in BOOLEAN : UploadBegin(r, m, zip)
    \/ \E r \in Replicas, m \in SpecModels, mname \in TransferNames,
          a \in TransferArchives, stream_ok \in BOOLEAN : UploadFinish(r, m, mname, a, stream_ok)
    \/ \E r \in Replicas, m \in SpecModels : RemoveModel(r, m)

TransferSpec == Init /\ [][TransferNext]_vars

\* The queue of temp directories: uploads of large language models on the
\* server instances and the sidecars, with no load and no removal.
QueueNext ==
    \/ \E r \in Replicas, m \in ModelIds, mname \in TransferNames :
          UploadLLM(r, m, mname, TRUE)
    \/ \E s \in Replicas : ScRegister(s)
    \/ \E s \in Replicas : ScSleep(s)
    \/ \E s \in Replicas, m \in ModelIds : ScPoll(s, m)
    \/ \E s \in Replicas, ok \in BOOLEAN : ScDownload(s, ok)
    \/ \E s \in Replicas, a \in TransferArchives : ScSave(s, a)
    \/ \E s \in Replicas : ScNotify(s)

QueueSpec == Init /\ [][QueueNext]_vars

\* The sidecars keep running: registration is retried until it is answered,
\* main_loop takes turn after turn, and each step of a turn ends.  Which temp
\* directory a turn finds first is the file system's choice.
QueueFairSpec ==
    QueueSpec /\ \A s \in Replicas :
                   /\ WF_vars(ScRegister(s))
                   /\ WF_vars(ScSleep(s) \/ \E m \in ModelIds : ScPoll(s, m))
                   /\ WF_vars(\E ok \in BOOLEAN : ScDownload(s, ok))
                   /\ WF_vars(\E a \in TransferArchives : ScSave(s, a))
                   /\ WF_vars(ScNotify(s))

\* The sidecars and the uploads of large language models, with server
\* processes that are started again while their sidecars keep running.
RestartNext ==
    \/ \E r \in Replicas, m \in SpecModels, mname \in TransferNames :
          UploadLLM(r, m, mname, TRUE)
    \/ \E s \in Replicas : ScRegister(s)
    \/ \E s \in Replicas : ScSleep(s)
    \/ \E s \in Replicas, m \in SpecModels : ScPoll(s, m)
    \/ \E s \in Replicas, ok \in BOOLEAN : ScDownload(s, ok)
    \/ \E s \in Replicas, a \in TransferArchives : ScSave(s, a)
    \/ \E s \in Replicas : ScNotify(s)
    \/ \E r \in Replicas : ServerStart(r)

RestartSpec == Init /\ [][RestartNext]_vars

\* Uploads and sidecar installs with every way they fail.
FailureNext ==
    \/ \E r \in Replicas, m \in SpecModels, zip \in BOOLEAN : UploadBegin(r, m, zip)
    \/ \E r \in Replicas, m \in SpecModels, mname \in TransferNames,
          a \in Archives, stream_ok \in BOOLEAN : UploadFinish(r, m, mname, a, stream_ok)
    \/ \E r \in Replicas, m \in SpecModels : UploadCorrupt(r, m)
    \/ \E r \in Replicas, m \in SpecModels, mname \in TransferNames :
          UploadLLM(r, m, mname, TRUE)
    \/ \E s \in Replicas : ScRegister(s)
    \/ \E s \in Replicas : ScSleep(s)
    \/ \E s \in Replicas, m \in SpecModels : ScPoll(s, m)
    \/ \E s \in Replicas, ok \in BOOLEAN : ScDownload(s, ok)
    \/ \E s \in Replicas, a \in TransferArchives : ScSave(s, a)
    \/ \E s \in Replicas : ScSaveCorrupt(s)
    \/ \E s \in Replicas : ScNotify(s)
    \/ \E s \in Replicas : ScNotifyFails(s)
    \/ \E r \in Replicas, m \in SpecModels : RemoveModel(r, m)

FailureSpec == Init /\ [][FailureNext]_vars

\* A catalog that answers and archives that hold every required file
GoodCatalog == {c \in CatalogAnswers :
                  c.meta_ok /\ c.active /\ c.slug = CONDA_HOME /\ c.fetch_ok}
GoodArchives == {a \in Archives : a.score /\ a.runtime /\ a.slug = CONDA_HOME}

\* Metadata requests next to loads and removals.
MetaNext ==
    \/ \E r \in Replicas, m \in SpecModels \cup PlainIds, cat \in CatalogAnswers :
          GetMetadata(r, m, cat)
    \/ \E r \in Replicas, m \in SpecModels, cat \in CatalogAnswers : LoadBegin(r, m, cat)
    \/ \E r \in Replicas, mname \in TransferNames, a \in Archives : LoadFinish(r, mname, a)
    \/ \E r \in Replicas, m \in SpecModels : RemoveModel(r, m)

MetaSpec == Init /\ [][MetaNext]_vars

\* Inference next to loads and removals of one model.
InferNext ==
    \/ \E r \in Replicas, m \in SpecModels, cat \in GoodCatalog : LoadBegin(r, m, cat)
    \/ \E r \in Replicas, mname \in TransferNames, a \in Archives : LoadFinish(r, mname, a)
    \/ \E r \in Replicas, m \in SpecModels : RemoveModel(r, m)
    \/ \E r \in Replicas, m \in SpecModels, data \in BOOLEAN, outcome \in Outcomes :
          InferData(r, m, data, outcome)

InferSpec == Init /\ [][InferNext]_vars

\* Inference next to loads and removals at the grain of the registry file.
InferRegistryNext ==
    \/ \E r \in Replicas, m \in ModelIds, cat \in GoodCatalog : LoadBegin(r, m, cat)
    \/ \E r \in Replicas, a \in GoodArchives : LoadExtract(r, a)
    \/ \E r \in Replicas, mname \in TransferNames : LoadRegister(r, mname)
    \/ \E r \in Replicas, m \in ModelIds : RemoveModel(r, m)
    \/ \E r \in Replicas, m \in ModelIds, data \in BOOLEAN, outcome \in Outcomes :
          InferData(r, m, data, outcome)

InferRegistrySpec == Init /\ [][InferRegistryNext]_vars

\* Loads and removals at the grain of the registry file.
RegistryNext ==
    \/ \E r \in Replicas, m \in ModelIds, cat \in GoodCatalog : LoadBegin(r, m, cat)
    \/ \E r \in Replicas, a \in GoodArchives : LoadExtract(r, a)
    \/ \E r \in Replicas, mname \in Names : LoadRegister(r, mname)
    \/ \E r \in Replicas, m \in ModelIds : RemoveModel(r, m)

RegistrySpec == Init /\ [][RegistryNext]_vars

\* Loads alone, at the grain of the registry file: what instances that load at
\* the same time do to each other when nothing is removed.
LoadRaceNext ==
    \/ \E r \in Replicas, m \in ModelIds, cat \in GoodCatalog : LoadBegin(r, m, cat)
    \/ \E r \in Replicas, a \in GoodArchives : LoadExtract(r, a)
    \/ \E r \in Replicas, mname \in Names : LoadRegister(r, mname)

LoadRaceSpec == Init /\ [][LoadRaceNext]_vars

\* The job endpoints, the resource manager and the scoring workers on the table.
JobNext ==
    \/ \E jobid \in JobIds, llm \in {"", "modelA"}, measure \in {"", "modelB"},
          out \in BOOLEAN, db_ok \in BOOLEAN : Submit(jobid, llm, measure, out, db_ok)
    \/ \E jobid \in JobIds, db_ok \in BOOLEAN : GetJob(jobid, db_ok)
    \/ \E jobid \in JobIds : UpdateResource(jobid)
    \/ \E jobid \in JobIds : RemoveResource(jobid)
    \/ \E w \in Workers : WorkerFetch(w)
    \/ \E w \in Workers : WorkerMark(w)
    \/ \E w \in Workers, ok \in BOOLEAN : WorkerProcess(w, ok)

JobSpec == Init /\ [][JobNext]_vars

\* The job endpoints and the workers, for requests that name no output
\* artifact.
JobApiNext ==
    \/ \E jobid \in JobIds, llm \in {"", "modelA"}, measure \in {"", "modelB"},
          db_ok \in BOOLEAN : Submit(jobid, llm, measure, FALSE, db_ok)
    \/ \E jobid \in JobIds, db_ok \in BOOLEAN : GetJob(jobid, db_ok)
    \/ \E jobid \in JobIds : UpdateResource(jobid)
    \/ \E jobid \in JobIds : RemoveResource(jobid)
    \/ \E w \in Workers : WorkerFetch(w)
    \/ \E w \in Workers : WorkerMark(w)
    \/ \E w \in Workers, ok \in BOOLEAN : WorkerProcess(w, ok)

JobApiSpec == Init /\ [][JobApiNext]_vars

\* The workers' loops keep running: each turn that can be taken is taken.
JobFairSpec ==
    JobSpec /\ \A w \in Workers :
                 /\ WF_vars(WorkerFetch(w)) /\ WF_vars(WorkerMark(w))
                 /\ WF_vars(\E ok \in BOOLEAN : WorkerProcess(w, ok))

\* ------------------------------------------------------------------ properties
\* C1: a load_model that arrives right after a successful load_model of the
\* same model, on the same instance (and on another one as well), is answered
\* 409 Conflict, and the registry file holds the model's entry (the registry is
\* a JSON object: a key has one entry or none).
C1_SecondLoadConflicts ==
    (last.op = "load_model" /\ last.repeat # "no") =>
        /\ last.code = 409
        /\ model_present_in_registry(registry, last.mid)
        /\ Cardinality({k \in DOMAIN registry : k = last.mid}) = 1

C1_Witness ==
    /\ last.op = "load_model" /\ last.repeat = "same"
    /\ last.code = 409 /\ last.via = "cached"
    /\ model_present_in_cache(cache[last.rep], last.mid)

\* C2, as stated: an upload_model whose archive holds no score.py is answered
\* 422, leaves no artifact directory of the model and changes neither the
\* registry nor any cache.
C2_UploadWithoutScore ==
    [][\A r \in Replicas, m \in ModelIds, mname \in Names, a \in Archives :
         (UploadFinish(r, m, mname, a, TRUE) /\ ~a.score) =>
             /\ last'.code = 422
             /\ ~dirs'[m].exists
             /\ UNCHANGED <<registry, cache>>]_vars

\* C3, as stated: an upload_model whose archive names a slug other than
\* CONDA_HOME is answered 400, leaves no artifact directory of the model and
\* changes neither the registry nor any cache.
C3_SlugMismatchIs400 ==
    [][\A r \in Replicas, m \in ModelIds, mname \in Names, a \in Archives :
         (UploadFinish(r, m, mname, a, TRUE) /\ a.runtime /\ a.slug = OtherSlug) =>
             /\ last'.code = 400
             /\ ~dirs'[m].exists
             /\ UNCHANGED <<registry, cache>>]_vars

\* C3, amended: an upload_model whose archive names a slug other than
\* CONDA_HOME is rejected, with 400 when the directory holds score.py after the
\* extraction and with 422 when it does not; it leaves no artifact directory of
\* the model and changes neither the registry nor any cache.
C3_SlugMismatchRejected ==
    [][\A r \in Replicas, m \in ModelIds, mname \in Names, a \in Archives :
         (UploadFinish(r, m, mname, a, TRUE) /\ a.runtime /\ a.slug = OtherSlug) =>
             /\ last'.op = "upload_model" /\ last'.rep = r /\ last'.mid = m
             /\ last'.code = IF dirs[m].score \/ a.score THEN 400 ELSE 422
             /\ ~dirs'[m].exists
             /\ UNCHANGED <<registry, cache>>]_vars

C3_Witness ==
    /\ last.op = "upload_model" /\ last.code = 400 /\ last.via = "invalid"
    /\ ~dirs[last.mid].exists

\* C4: register_llm called with a secret other than the server's uuid is
\* answered 401 and changes neither the registry nor any cache.
C4_WrongSecretUnauthorized ==
    [][\A r \in Replicas, m \in SpecModels, mname \in TransferNames,
          status \in {"COMPLETED", "FAILED"}, secret \in SpoofSecrets :
         SpoofRegisterLLM(r, mname, m, status, secret) =>
             /\ last'.op = "register_llm" /\ last'.code = 401
             /\ UNCHANGED <<registry, cache, dirs, temp>>]_vars

C4_Witness ==
    /\ last.op = "register_llm" /\ last.code = 401 /\ last.via = "unauthorized"
    /\ ~model_present_in_registry(registry, last.mid)

\* C5: a sidecar turn that takes a request of its own whose artifact directory
\* exists deletes the request's temp directory, goes back to polling without a
\* callback, and changes nothing else of the store, the registry or the caches.
C5_SidecarDiscards ==
    [][\A s \in Replicas, m \in ModelIds :
         (ScPoll(s, m) /\ temp[m].sidecar_secret = SidecarUuid(s) /\ dirs[m].exists) =>
             /\ temp' = [temp EXCEPT ![m] = NoTemp]
             /\ sc'[s].pc = "poll"
             /\ last'.op = "sidecar" /\ last'.via = "discarded"
             /\ UNCHANGED <<dirs, registry, cache, sidecar_uuid>>]_vars

C5_Witness ==
    /\ last.op = "sidecar" /\ last.via = "discarded"
    /\ dirs[last.mid].exists /\ ~temp[last.mid].exists
    /\ sc[last.rep].pc = "poll"

\* C6, as stated: once get_inference_job has returned COMPLETED or FAILED for a
\* job id, no later query of that id finds ACCEPTED or PROCESSING.
C6_TerminalStaysTerminal ==
    \A j \in observed :
        get_entity_by_id(jobs, j).job_status \notin {"ACCEPTED", "PROCESSING"}

\* C7, as stated: after run_batch_inference_and_score has answered 201 with a
\* job id, and before a worker has taken a turn, the table holds the job and
\* get_inference_job answers ACCEPTED for it.
C7_SubmittedIsAccepted ==
    (jlast.op = "submit" /\ jlast.code = 201) =>
        LET d == get_entity_by_id(jobs, jlast.job_id)
        IN d.found /\ d.job_status = "ACCEPTED"

\* C8, as stated: after a worker has finished the pipeline of a job with
\* success, get_inference_job answers COMPLETED with the output locator set.
C8_ScoredIsCompleted ==
    \A i \in scored :
        LET d == get_entity_by_id(jobs, jobs[i].job_id)
        IN d.found /\ d.job_status = "COMPLETED" /\ d.out

\* C9: remove_model of a model without an artifact directory is answered 404
\* and changes neither the store, the registry nor any cache.
C9_RemoveAbsentIs404 ==
    [][\A r \in Replicas, m \in ModelIds :
         (RemoveModel(r, m) /\ ~dirs[m].exists) =>
             /\ last'.op = "remove_model" /\ last'.code = 404
             /\ UNCHANGED <<dirs, registry, cache, temp>>]_vars

C9_Witness ==
    /\ last.op = "remove_model" /\ last.code = 404
    /\ ~dirs[last.mid].exists
    /\ \E r \in Replicas : model_present_in_cache(cache[r], last.mid)

\* C10: load_model or upload_model of a model that the registry holds and the
\* instance's cache does not is answered 409; it appends the model to that
\* cache under the registry's display name, fetches and extracts nothing, and
\* leaves the registry and the store as they are.
C10_AdoptFromRegistry ==
    [][\A r \in Replicas, m \in ModelIds :
         (/\ model_present_in_registry(registry, m)
          /\ ~model_present_in_cache(cache[r], m)
          /\ \/ \E cat \in CatalogAnswers : LoadBegin(r, m, cat)
             \/ UploadBegin(r, m, TRUE)) =>
             /\ cache' = [cache EXCEPT ![r] =
                            Append(cache[r], [model_name |-> registry[m],
                                              model_ocid |-> m, inf_calls |-> 0])]
             /\ last'.rep = r /\ last'.mid = m /\ last'.code = 409
             /\ UNCHANGED <<registry, dirs, temp, loading, uploading>>]_vars

C10_Witness ==
    /\ last.code = 409 /\ last.via = "adopted"
    /\ \E i \in 1..Len(cache[last.rep]) :
          /\ cache[last.rep][i].model_ocid = last.mid
          /\ cache[last.rep][i].model_name = registry[last.mid]

\* C11, as stated: every model of the registry has an artifact directory that
\* exists and holds a file.
C11_RegisteredHasDirectory ==
    \A m \in DOMAIN registry :
        dirs[m].exists /\ (dirs[m].score \/ dirs[m].runtime)

\* C12, as stated: whenever a model enters the registry, its artifact directory
\* holds score.py and runtime.yaml and the slug of runtime.yaml is CONDA_HOME.
C12_ValidatedBeforeRegistered ==
    [][\A m \in ModelIds :
         (m \notin DOMAIN registry /\ m \in DOMAIN registry') =>
             /\ dirs'[m].score /\ dirs'[m].runtime
             /\ dirs'[m].slug = CONDA_HOME]_vars

\* C13, as stated: a model enters an instance's cache without being in the
\* registry, or leaves the registry while it is in an instance's cache, only
\* by remove_model of that model on another instance.
C13_CacheWithinRegistry ==
    [][\A r \in Replicas, m \in ModelIds :
         (/\ ~(model_present_in_cache(cache[r], m) /\ m \notin DOMAIN registry)
          /\ model_present_in_cache(cache'[r], m) /\ m \notin DOMAIN registry') =>
             \E q \in Replicas \ {r} : RemoveModel(q, m)]_vars

\* C14: a sidecar turn that meets a request with another sidecar secret reports
\* no work and leaves the temp directory, the store, the registry, the caches
\* and its own position as they are; a sidecar starts a download only for a
\* request that carries its own secret.
C14_ForeignRequestIgnored ==
    [][\A s \in Replicas, m \in ModelIds :
         /\ (ScPoll(s, m) /\ temp[m].sidecar_secret # SidecarUuid(s)) =>
                /\ last'.op = "sidecar" /\ last'.via = "nowork"
                /\ UNCHANGED <<temp, dirs, registry, cache, sc>>
         /\ (sc[s].pc = "poll" /\ sc'[s].pc = "download" /\ sc'[s].cfg.mid = m) =>
                temp[m].sidecar_secret = SidecarUuid(s)]_vars

C14_Witness ==
    /\ last.op = "sidecar" /\ last.via = "nowork"
    /\ sc[last.rep].pc = "poll"
    /\ \E m \in ModelIds :
          /\ temp[m].exists
          /\ temp[m].sidecar_secret # SidecarUuid(last.rep)
          /\ ~dirs[m].exists

\* C15, as stated: a sidecar that has accepted a request goes back to polling
\* only with the temp directory deleted and through a callback; the callback
\* says FAILED unless the install has succeeded.
C15_FailureCallsBack ==
    [][\A s \in Replicas :
         (sc[s].pc \in {"download", "save", "notify"} /\ sc'[s].pc = "poll") =>
             /\ ~temp'[sc[s].cfg.mid].exists
             /\ last'.op = "register_llm" /\ last'.rep = s
             /\ last'.mid = sc[s].cfg.mid
             /\ (sc[s].cfg.status # "COMPLETED" => last'.via = "notregistered")]_vars

\* C16: the sidecar's callback, which carries the server's secret, with status
\* COMPLETED maps the model to the display name in the registry and appends
\* its record to the instance's cache, as a successful load_model does; with
\* status FAILED it changes neither.
C16_CallbackRegisters ==
    [][\A s \in Replicas :
         ScNotify(s) =>
             LET m == sc[s].cfg.mid
                 mname == sc[s].cfg.model_name
             IN /\ sc[s].cfg.server_secret = ServerUuid(s)
                /\ last'.op = "register_llm" /\ last'.code = 200
                /\ IF sc[s].cfg.status = "COMPLETED"
                   THEN /\ m \in DOMAIN registry' /\ registry'[m] = mname
                        /\ \A k \in ModelIds \ {m} :
                              /\ (k \in DOMAIN registry') = (k \in DOMAIN registry)
                              /\ k \in DOMAIN registry => registry'[k] = registry[k]
                        /\ cache' = [cache EXCEPT ![s] =
                                       Append(cache[s], [model_name |-> mname,
                                                         model_ocid |-> m, inf_calls |-> 0])]
                   ELSE UNCHANGED <<registry, cache>>]_vars

C16_Witness ==
    /\ last.op = "register_llm" /\ last.code = 200 /\ last.via = "registered"
    /\ last.mid \in DOMAIN registry
    /\ model_present_in_cache(cache[last.rep], last.mid)

\* C17, as stated: remove_model of a model whose artifact directory exists ends
\* with the directory deleted and the model in neither the registry nor the
\* instance's cache.
C17_RemoveCleansAll ==
    [][\A r \in Replicas, m \in ModelIds :
         (RemoveModel(r, m) /\ dirs[m].exists) =>
             /\ ~dirs'[m].exists
             /\ m \notin DOMAIN registry'
             /\ ~model_present_in_cache(cache'[r], m)]_vars

\* C18: infer_data with a body for a model whose score.py is missing answers
\* 400 and leaves the instance's cache without an entry of the model;
\* infer_data with an empty body answers 400 and changes neither the caches,
\* the registry nor the model directories.
C18_InferBadRequest ==
    [][\A r \in Replicas, m \in SpecModels :
         /\ ((\E o \in Outcomes : InferData(r, m, TRUE, o)) /\ ~dirs[m].score) =>
                /\ last'.op = "infer_data" /\ last'.code = 400
                /\ ~model_present_in_cache(cache'[r], m)
                /\ cache'[r] = remove_model_from_cache(cache[r], m)
         /\ (\E o \in Outcomes : InferData(r, m, FALSE, o)) =>
                /\ last'.op = "infer_data" /\ last'.code = 400
                /\ UNCHANGED <<cache, registry, dirs, temp>>]_vars

C18_Witness ==
    /\ last.op = "infer_data" /\ last.code = 400 /\ last.via = "noartifact"
    /\ ~dirs[last.mid].exists
    /\ \E r \in Replicas \ {last.rep} : model_present_in_cache(cache[r], last.mid)

\* C19, as stated: an infer_data that returns results leaves the instance's
\* cache with an entry of the model whose inf_calls is one more than before
\* (0 before with no entry); an infer_data that fails leaves inf_calls of every
\* model on every instance as it was.
C19_InferCountsOnce ==
    [][\A r \in Replicas, m \in ModelIds :
         (\E d \in BOOLEAN, o \in Outcomes : InferData(r, m, d, o)) =>
             IF last'.code = 200
             THEN /\ model_present_in_cache(cache'[r], m)
                  /\ inf_calls_of(cache'[r], m) = inf_calls_of(cache[r], m) + 1
             ELSE \A q \in Replicas, k \in ModelIds :
                     inf_calls_of(cache'[q], k) = inf_calls_of(cache[q], k)]_vars

\* C20, as stated: a get_model_metadata that answers 200 for a model that was
\* neither in the instance's cache nor in a directory of the store when the
\* request arrived leaves the model in the registry and in the instance's
\* cache, with its directory in place.
C20_MetadataLoadsFirst ==
    [][\A r \in Replicas, m \in SpecModels \cup PlainIds :
         /\ (/\ \E cat \in CatalogAnswers : GetMetadata(r, m, cat)
             /\ ~model_present_in_cache(cache[r], m)
             /\ (m \in SpecModels => ~dirs[m].exists)
             /\ loading'[r] = Idle /\ last'.code = 200) =>
                /\ m \in SpecModels
                /\ m \in DOMAIN registry'
                /\ model_present_in_cache(cache'[r], m)
                /\ dirs'[m].exists
         /\ (/\ \E mname \in TransferNames, a \in Archives : LoadFinish(r, mname, a)
             /\ loading[r].caller = "get_model_metadata" /\ loading[r].mid = m
             /\ last'.code = 200) =>
                /\ m \in DOMAIN registry'
                /\ model_present_in_cache(cache'[r], m)
                /\ dirs'[m].exists]_vars

\* C20, amended: get_model_metadata of an id that starts with "ocid" whose
\* runtime.yaml is not in the store answers 200 only after load_model has
\* installed the model, and then the model is in the registry and in the
\* instance's cache and its directory holds runtime.yaml; for an id of any
\* other form it answers 200 from the cache and loads nothing.
C20_OcidMetadataLoadsFirst ==
    [][\A r \in Replicas :
         /\ \A m \in SpecModels :
              /\ (/\ \E cat \in CatalogAnswers : GetMetadata(r, m, cat)
                  /\ ~dirs[m].runtime
                  /\ loading'[r] = Idle) =>
                     /\ last'.op = "get_model_metadata" /\ last'.code # 200
                     /\ UNCHANGED <<dirs, registry>>
              /\ (/\ \E mname \in TransferNames, a \in Archives : LoadFinish(r, mname, a)
                  /\ loading[r].caller = "get_model_metadata" /\ loading[r].mid = m
                  /\ last'.code = 200) =>
                     /\ m \in DOMAIN registry'
                     /\ model_present_in_cache(cache'[r], m)
                     /\ dirs'[m].exists /\ dirs'[m].runtime
         /\ \A m \in PlainIds :
              (\E cat \in CatalogAnswers : GetMetadata(r, m, cat)) =>
                  /\ last'.op = "get_model_metadata" /\ last'.code = 200
                  /\ UNCHANGED <<dirs, registry, cache, loading>>]_vars

C20_Witness ==
    /\ last.op = "get_model_metadata" /\ last.code = 200 /\ last.via = "loaded"
    /\ last.mid \in DOMAIN registry
    /\ model_present_in_cache(cache[last.rep], last.mid)
    /\ dirs[last.mid].runtime

\* C21: run_batch_inference_and_score with both model references empty is
\* answered 422, with no job id, and no row is inserted into the table.
C21_EmptyReferencesUnprocessable ==
    [][\A jobid \in JobIds :
         (\E out \in BOOLEAN, db_ok \in BOOLEAN : Submit(jobid, "", "", out, db_ok)) =>
             /\ jlast'.op = "submit" /\ jlast'.code = 422
             /\ jlast'.job_id = "none"
             /\ UNCHANGED jobs]_vars

C21_Witness ==
    /\ jlast.op = "submit" /\ jlast.code = 422
    /\ Len(jobs) = 1

\* C22: get_inference_job for a job id without a row, with the database
\* answering, returns 200 with the "not found" object and changes no row.
C22_AbsentJobIsSentinel ==
    [][\A jobid \in JobIds :
         (GetJob(jobid, TRUE) /\ \A i \in 1..Len(jobs) : jobs[i].job_id # jobid) =>
             /\ jlast'.op = "getjob" /\ jlast'.code = 200
             /\ jlast'.job_id = jobid /\ jlast'.job_status = "none"
             /\ ~get_entity_by_id(jobs, jobid).found
             /\ UNCHANGED <<jobs, wk>>]_vars

C22_Witness ==
    /\ jlast.op = "getjob" /\ jlast.code = 200 /\ jlast.job_status = "none"
    /\ Len(jobs) > 0
    /\ \A i \in 1..Len(jobs) : jobs[i].job_id # jlast.job_id

\* C23, as stated: a row is inserted with status ACCEPTED, every change of a
\* row's status is ACCEPTED to PROCESSING, PROCESSING to COMPLETED or
\* PROCESSING to FAILED, and a status is one of these four values.
C23_StatusStateMachine ==
    [][/\ \A i \in 1..Len(jobs') :
            /\ jobs'[i].job_status \in {"ACCEPTED", "PROCESSING", "COMPLETED", "FAILED"}
            /\ i > Len(jobs) => jobs'[i].job_status = "ACCEPTED"
       /\ \A i \in 1..Len(jobs) :
            jobs'[i].job_status # jobs[i].job_status =>
                <<jobs[i].job_status, jobs'[i].job_status>> \in
                    {<<"ACCEPTED", "PROCESSING">>, <<"PROCESSING", "COMPLETED">>,
                     <<"PROCESSING", "FAILED">>}]_vars

C26_OnePendingRequest ==
    [][\A r \in Replicas, m \in SpecModels, mname \in TransferNames :
         UploadLLM(r, m, mname, TRUE) =>
             /\ last'.op = "upload_llm"
             /\ IF dirs[m].exists \/ temp[m].exists
                THEN last'.code = 422 /\ UNCHANGED temp
                ELSE /\ last'.code = 201
                     /\ temp'[m] = [exists |-> TRUE, model_name |-> mname,
                                    server_secret |-> ServerUuid(r),
                                    sidecar_secret |-> sidecar_uuid[r]]
                     /\ \A k \in ModelIds \ {m} : temp'[k] = temp[k]
             /\ UNCHANGED <<registry, cache, dirs>>]_vars

C26_Witness ==
    /\ last.op = "upload_llm" /\ last.code = 422 /\ last.via = "pending"
    /\ temp[last.mid].exists /\ ~dirs[last.mid].exists
    /\ temp[last.mid].server_secret # ServerUuid(last.rep)

\* C27, as stated: the sidecar has deleted the temp directory of a request
\* before it calls back, it calls back once and returns to polling, and it
\* sets status COMPLETED only with the model directory installed, score.py and
\* runtime.yaml in it, and the temp directory deleted.
C27_OneCallbackAfterInstall ==
    [][\A s \in Replicas :
         /\ (sc[s].pc \in {"download", "save"} /\ sc'[s].pc \in {"notify", "poll"}) =>
                ~temp'[sc[s].cfg.mid].exists
         /\ ScNotify(s) => sc[s].pc = "notify" /\ sc'[s].pc = "poll"
         /\ (sc[s].cfg.status # "COMPLETED" /\ sc'[s].cfg.status = "COMPLETED") =>
                LET m == sc'[s].cfg.mid
                IN /\ sc'[s].pc = "notify"
                   /\ dirs'[m].exists /\ dirs'[m].score /\ dirs'[m].runtime
                   /\ ~temp'[m].exists]_vars

\* C25, as stated: a temp directory whose request carries the uuid of a
\* registered sidecar is deleted in the end, whatever other temp directories
\* there are.
C25_RequestsConsumed ==
    \A m \in ModelIds :
        (temp[m].exists /\ \E s \in Replicas : temp[m].sidecar_secret = SidecarUuid(s))
            ~> ~temp[m].exists

\* C30: a worker's claim of a job is a read of the oldest ACCEPTED row that
\* leaves the row ACCEPTED, so that another worker's read returns the same row,
\* followed by a separate write of PROCESSING to the row read whatever its
\* status is by then; two workers can be processing one job_id at the same time.
C30_ClaimIsReadThenWrite ==
    [][\A w \in Workers :
         /\ (WorkerFetch(w) /\ OldestAccepted(jobs) # 0) =>
                /\ wk'[w] = [pc |-> "mark", row |-> OldestAccepted(jobs)]
                /\ UNCHANGED jobs
                /\ OldestAccepted(jobs') = wk'[w].row
         /\ WorkerMark(w) =>
                /\ jobs'[wk[w].row].job_status = "PROCESSING"
                /\ wk'[w] = [pc |-> "process", row |-> wk[w].row]]_vars

C30_Witness ==
    \E w \in Workers, v \in Workers :
        /\ w # v
        /\ wk[w].pc = "process" /\ wk[v].pc = "process"
        /\ wk[w].row = wk[v].row
        /\ jobs[wk[w].row].job_status = "PROCESSING"

\* C29: every job a worker takes into PROCESSING reaches COMPLETED or FAILED in
\* the end; an exception in the pipeline marks the row FAILED and sends the
\* worker back to its loop; and a FAILED job is not processed again.
C29_ProcessingEnds ==
    /\ \A i \in 1..MaxJobs :
         (i <= Len(jobs) /\ jobs[i].job_status = "PROCESSING")
             ~> (i <= Len(jobs) /\ jobs[i].job_status \in {"COMPLETED", "FAILED"})
    /\ [][\A w \in Workers :
            WorkerProcess(w, FALSE) =>
                /\ jobs'[wk[w].row].job_status = "FAILED"
                /\ wk'[w] = [pc |-> "poll", row |-> 0]]_vars
    /\ [][\A i \in 1..Len(jobs) :
            jobs[i].job_status = "FAILED" => jobs'[i].job_status = "FAILED"]_vars

\* C28: a sidecar leaves its registration loop only when the server has
\* stored its uuid, and while a sidecar is in its polling loop the server it
\* registered with holds the sidecar's uuid and writes it into every request
\* it accepts.
C28_PollingAgentIsRegistered ==
    /\ [][\A s \in Replicas :
            (sc[s].pc = "register" /\ sc'[s].pc # "register") =>
                /\ sidecar_uuid'[s] = SidecarUuid(s)
                /\ last'.op = "register_sidecar" /\ last'.code = 200]_vars
    /\ [](\A s \in Replicas :
            sc[s].pc # "register" => sidecar_uuid[s] = SidecarUuid(s))
    /\ [][\A s \in Replicas, m \in SpecModels :
            (sc[s].pc # "register" /\ ~temp[m].exists /\ temp'[m].exists
             /\ last'.rep = s) =>
                temp'[m].sidecar_secret = SidecarUuid(s)]_vars

\* C39, as stated: the rows of the job table carry different job ids, a
\* successful run_batch_inference_and_score adds a row with a job id no row
\* had, and get_inference_job finds the row of every job id in the table.
C39_JobIdsDiffer ==
    /\ [](\A i \in 1..Len(jobs), k \in 1..Len(jobs) :
            i # k => jobs[i].job_id # jobs[k].job_id)
    /\ [](\A i \in 1..Len(jobs) : get_entity_by_id(jobs, jobs[i].job_id).found)
    /\ [][(jlast'.op = "submit" /\ jlast'.code = 201 /\ Len(jobs') = Len(jobs) + 1) =>
            \A i \in 1..Len(jobs) : jobs[i].job_id # jobs'[Len(jobs')].job_id]_vars

\* C32, as stated: a model id leaves the registry file only by remove_model of
\* that model id; a write of the registry for one model id drops no entry of
\* another.
C32_RegistryEntriesKept ==
    [][\A m \in ModelIds :
         (m \in DOMAIN registry /\ m \notin DOMAIN registry') =>
             \E r \in Replicas : RemoveModel(r, m)]_vars

\* C31: two instances can both have extracted a model before either has
\* registered it.  When the second of them registers, the registry names the
\* model (a JSON object holds one entry per model id), the caches of both
\* instances hold it and its artifact directory exists.
C31_RacingLoadsBothRegister ==
    [][\A r \in Replicas, q \in Replicas, m \in ModelIds :
         (/\ r # q
          /\ \E mname \in Names : LoadRegister(r, mname)
          /\ loading[r].mid = m /\ m \notin DOMAIN regbuf[r].reg
          /\ loading[q] = Idle /\ model_present_in_cache(cache[q], m)) =>
             /\ m \in DOMAIN registry'
             /\ model_present_in_cache(cache'[r], m)
             /\ model_present_in_cache(cache'[q], m)
             /\ dirs'[m].exists
             /\ loading'[r] = Idle
             /\ last'.op = "load_model" /\ last'.code = 200 /\ last'.rep = r]_vars

\* The first of two racing loads has answered 200 and the second has
\* extracted the model and read the registry before the first wrote it.
C31_Witness ==
    \E r \in Replicas, q \in Replicas, m \in ModelIds :
        /\ r # q
        /\ last.op = "load_model" /\ last.code = 200 /\ last.rep = q /\ last.mid = m
        /\ loading[q] = Idle /\ model_present_in_cache(cache[q], m)
        /\ m \in DOMAIN registry
        /\ loading[r].mid = m /\ regbuf[r].has /\ m \notin DOMAIN regbuf[r].reg

\* Another request that is extracting, streaming or installing model m.
InFlight(m) ==
    \/ \E q \in Replicas : loading[q].mid = m
    \/ \E q \in Replicas : \E u \in uploading[q] : u.mid = m
    \/ \E q \in Replicas : sc[q].pc \in {"download", "save"} /\ sc[q].cfg.mid = m

\* C33, as stated: when upload_model answers with a failure, or the sidecar
\* ends an install with FAILED or with an invalid archive, the model's
\* artifact directory is gone, unless the model is registered or another
\* request is working on it.
C33_FailedInstallRemovesDir ==
    [][\A m \in SpecModels :
         (\/ /\ last'.op = "upload_model" /\ last'.mid = m /\ last' # last
             /\ last'.via \in {"stream", "badzip", "invalid"}
          \/ \E s \in Replicas :
               /\ sc[s].pc = "save" /\ sc[s].cfg.mid = m
               /\ \/ sc'[s].pc = "poll"
                  \/ sc'[s].pc = "notify" /\ sc'[s].cfg.status = "FAILED") =>
             \/ ~dirs'[m].exists
             \/ m \in DOMAIN registry'
             \/ InFlight(m)']_vars

\* C34, as stated: the sidecar process never leaves main_loop, and a request
\* that ends with a failure takes the sidecar back to polling.
C34_AgentKeepsPolling ==
    /\ [](\A s \in Replicas : sc[s].pc # "crashed")
    /\ [][\A s \in Replicas :
            (sc[s].pc = "notify" /\ sc'[s].pc # "notify") => sc'[s].pc = "poll"]_vars

\* C35: a load_model of a model that is neither cached nor registered and
\* whose catalog call fails, whose model is not Active or whose SlugName is not
\* the instance's environment is answered 500, 400, 400 or 500 and leaves the
\* registry, every cache, the store and the temp directories as they were;
\* the handler ends there.
C35_FailedLoadChangesNothing ==
    [][\A r \in Replicas, m \in SpecModels, cat \in CatalogAnswers :
         (/\ LoadBegin(r, m, cat)
          /\ ~model_present_in_cache(cache[r], m)
          /\ ~model_present_in_registry(registry, m)
          /\ (~cat.meta_ok \/ ~cat.active \/ cat.slug # CONDA_HOME \/ ~cat.fetch_ok)) =>
             /\ last'.op = "load_model" /\ last'.rep = r /\ last'.mid = m
             /\ last'.code = (IF ~cat.meta_ok THEN 500
                              ELSE IF ~cat.active \/ cat.slug # CONDA_HOME THEN 400
                              ELSE 500)
             /\ UNCHANGED <<registry, cache, dirs, temp>>
             /\ loading'[r] = Idle]_vars

C35_Witness ==
    /\ last.op = "load_model" /\ last.code \in {400, 500}
    /\ last.via \in {"metadata", "inactive", "slug", "artifact"}
    /\ dirs[last.mid].exists
    /\ \E q \in Replicas : q # last.rep /\ model_present_in_cache(cache[q], last.mid)

\* C36, as stated: after the startup scan of an instance its cache holds once
\* each model id that the registry lists and that has an artifact directory,
\* and nothing else; no artifact directory is left that the registry does not
\* list, and no temp directory is left.
C36_StartupScan ==
    [][\A r \in Replicas :
         ServerStart(r) =>
             /\ \A m \in ModelIds :
                    Cardinality({i \in 1..Len(cache'[r]) : cache'[r][i].model_ocid = m})
                        = (IF m \in DOMAIN registry' /\ dirs'[m].exists THEN 1 ELSE 0)
             /\ \A m \in ModelIds : dirs'[m].exists => m \in DOMAIN registry'
             /\ \A m \in ModelIds : ~temp'[m].exists]_vars

\* C38, as stated: the startup scan of an instance leaves as they are the
\* temp directories of requests that another instance accepted, and the
\* artifact directories, not yet registered, that another instance or its
\* sidecar is installing.
C38_ScanSparesPeers ==
    [][\A r \in Replicas, m \in ModelIds :
         ServerStart(r) =>
             /\ (temp[m].exists /\ \E q \in Replicas \ {r} :
                                      temp[m].server_secret = ServerUuid(q)) =>
                    temp'[m] = temp[m]
             /\ (/\ dirs[m].exists /\ m \notin DOMAIN registry
                 /\ \E q \in Replicas \ {r} :
                      \/ loading[q].mid = m
                      \/ \E u \in uploading[q] : u.mid = m
                      \/ sc[q].pc \in {"save", "notify"} /\ sc[q].cfg.mid = m) =>
                    dirs'[m] = dirs[m]]_vars

\* C37, as stated: the model_cache of an instance never holds two entries
\* with one model id.
C37_OneCacheEntryPerModel ==
    \A r \in Replicas, m \in ModelIds :
        Cardinality({i \in 1..Len(cache[r]) : cache[r][i].model_ocid = m}) <= 1
====
